---- MODULE Spec2Model ----
(***************************************************************************)
(* JustBot: listener registration (BotApplication.on and the attachment    *)
(* decorators), event dispatch over the listener registry, the             *)
(* MessageChain class and BotApplication.send_msg.                         *)
(*                                                                         *)
(* Python strings are modelled as sequences of characters, so that         *)
(* concatenation is \o and the empty string is <<>>.                       *)
(***************************************************************************)
EXTENDS Integers, Sequences, FiniteSets, TLC

VARIABLES
    listeners,   \* ListenerManager registry: event type -> ordered listeners
    roleOf,      \* ghost: handler -> the role filter last requested for it
    history,     \* ghost: the accepted registrations, in the order they were made
    last,        \* observable outcome of the last registry operation
    cls,         \* the attributes of the class object MessageChain
    built,       \* ghost: what each built chain showed right after its build
    out,         \* observable outcome of the last send_msg call
    wiring,      \* which ListenerManager object the adapter, the application and CONFIG hold
    pass,        \* a dispatch pass that is suspended inside a handler
    tasks        \* two handlers that each build a chain and send it

vars == <<listeners, roleOf, history, last, cls, built, out, wiring, pass, tasks>>

others == <<wiring, pass, tasks>>

(***************************************************************************)
(* Bounds of the exploration.                                              *)
(***************************************************************************)
MaxListeners == 3
MaxPrio == 2
MaxFiltered == 2
MaxDecorated == 1

None == "None"

Events == {"EvA", "EvB"}
AsyncHandlers == {"h1", "h2"}
SyncFunctions == {"f"}
Targets == AsyncHandlers \cup SyncFunctions
Fallbacks == {"fb"}
Roles == {"Admin", "Member"}
Messages == {"/ping 1", "say hello"}

\* priority arguments: Python ints -1..MaxPrio and one value that is not an int
Priorities ==
    {[isInt |-> TRUE, val |-> v] : v \in -1..MaxPrio}
        \cup {[isInt |-> FALSE, val |-> 1]}

\* event arguments of `on`: one type, or a list / tuple of types
EventArgs ==
    {[shape |-> "type", evs |-> <<e>>] : e \in Events}
        \cup {[shape |-> s, evs |-> <<e>>] : s \in {"list", "tuple"}, e \in Events}
        \cup {[shape |-> s, evs |-> q] :
                s \in {"list", "tuple"}, q \in {x \in Events \X Events : x[1] # x[2]}}

SingleEventArgs == {a \in EventArgs : a.shape = "type"}

FewPriorities == {p \in Priorities : p.isInt /\ p.val \in 0..1}

(***************************************************************************)
(* Listener and ListenerManager.                                           *)
(***************************************************************************)
NoRole == [set |-> FALSE, role |-> {}, todo |-> None]

Listener(e, target) ==
    [event |-> e, target |-> target, priority |-> 0,
     matcher |-> None, param_convert |-> None, role |-> NoRole, nlp |-> None]

RECURSIVE CountLE(_, _)
CountLE(seq, p) ==
    IF seq = <<>> THEN 0
    ELSE IF Head(seq).priority <= p THEN 1 + CountLE(Tail(seq), p) ELSE 0

\* ListenerManager.join: stable insertion by ascending priority
join(ls, listener, priority) ==
    LET old == ls[listener.event]
        k == CountLE(old, priority)
        new == [listener EXCEPT !.priority = priority]
    IN [ls EXCEPT ![listener.event] =
            SubSeq(old, 1, k) \o <<new>> \o SubSeq(old, k + 1, Len(old))]

IsListener(ls, target) ==
    \E e \in Events : \E i \in 1..Len(ls[e]) : ls[e][i].target = target

SetField(ls, target, field, value) ==
    [e \in Events |->
        [i \in 1..Len(ls[e]) |->
            IF ls[e][i].target = target
            THEN [ls[e][i] EXCEPT ![field] = value]
            ELSE ls[e][i]]]

\* ListenerManager.set_matcher / set_param_convert / set_role / set_nlp
set_attachment(ls, target, field, value) ==
    IF IsListener(ls, target)
    THEN [flag |-> TRUE, listeners |-> SetField(ls, target, field, value)]
    ELSE [flag |-> FALSE, listeners |-> ls]

(***************************************************************************)
(* BotApplication.on                                                       *)
(***************************************************************************)
NoLast ==
    [op |-> "init", ev |-> <<>>, priority |-> [isInt |-> TRUE, val |-> 0],
     target |-> None, kind |-> None, raised |-> None, ret |-> None,
     warned |-> FALSE, errored |-> FALSE, flag |-> TRUE,
     sender |-> None, msg |-> None, trace |-> <<>>]

\* on_mut_zero: the bug `priority >= 0` in place of `priority > 0`
on_mut_zero(priority) ==
    IF ~priority.isInt THEN [dec |-> "identity", errored |-> TRUE]
    ELSE IF priority.val >= 0 THEN [dec |-> "wrapper", errored |-> FALSE]
    ELSE [dec |-> None, errored |-> TRUE]

\* what on(event, priority) returns and whether it logged an error
on(priority) ==
    IF ~priority.isInt THEN [dec |-> "identity", errored |-> TRUE]
    ELSE IF priority.val > 0 THEN [dec |-> "wrapper", errored |-> FALSE]
    ELSE [dec |-> None, errored |-> TRUE]

iscoroutinefunction(target) == target \in AsyncHandlers

RECURSIVE JoinEach(_, _, _, _)
JoinEach(ls, evs, target, priority) ==
    IF evs = <<>> THEN ls
    ELSE JoinEach(join(ls, Listener(Head(evs), target), priority),
                  Tail(evs), target, priority)

\* joined_events_mut_first: the bug of unwrapping every list to its first
\* element, the length test left out
joined_events_mut_first(evarg) ==
    IF evarg.shape = "list" THEN <<evarg.evs[1]>> ELSE evarg.evs

\* the event types wrapper joins the handler under: a one-element list is
\* unwrapped, one type is joined once, a list or tuple once per element
joined_events(evarg) ==
    LET ev == IF evarg.shape = "list" /\ Len(evarg.evs) = 1
              THEN [shape |-> "type", evs |-> <<evarg.evs[1]>>]
              ELSE evarg
    IN IF ev.shape \notin {"list", "tuple"} THEN <<ev.evs[1]>> ELSE ev.evs

\* wrapper_mut_front: the bug of joining every listener at priority 1
wrapper_mut_front(ls, evarg, priority, target) ==
    IF iscoroutinefunction(target)
    THEN [listeners |-> JoinEach(ls, joined_events(evarg), target, 1), warned |-> FALSE]
    ELSE [listeners |-> ls, warned |-> TRUE]

\* the decorator `wrapper` returned by on for a positive priority
wrapper(ls, evarg, priority, target) ==
    IF iscoroutinefunction(target)
    THEN [listeners |-> JoinEach(ls, joined_events(evarg), target, priority.val), warned |-> FALSE]
    ELSE [listeners |-> ls, warned |-> TRUE]

TotalListeners(ls) ==
    LET RECURSIVE Sum(_)
        Sum(S) == IF S = {} THEN 0
                  ELSE LET e == CHOOSE x \in S : TRUE IN Len(ls[e]) + Sum(S \ {e})
    IN Sum(Events)

\* @app.on(evarg, priority) applied to target, explored while the registry
\* holds at most cap listeners
Register(evarg, priority, target, cap) ==
    LET d == on(priority)
        w == wrapper(listeners, evarg, priority, target)
        base == [NoLast EXCEPT !.op = "on",
                               !.priority = priority, !.target = target,
                               !.errored = d.errored]
    IN /\ TotalListeners(listeners) + Len(evarg.evs) <= cap
       /\ IF d.dec = "wrapper"
          THEN /\ listeners' = w.listeners
               /\ history' =
                    IF w.listeners # listeners
                    THEN Append(history, [evs |-> evarg.evs, target |-> target,
                                          priority |-> priority.val])
                    ELSE history
               /\ last' = [base EXCEPT !.ret = target, !.warned = w.warned]
          ELSE IF d.dec = "identity"
          THEN /\ last' = [base EXCEPT !.ret = target]
               /\ UNCHANGED <<listeners, history>>
          ELSE \* on returned None: calling None(target) raises TypeError
               /\ last' = [base EXCEPT !.raised = "TypeError"]
               /\ UNCHANGED <<listeners, history>>
       /\ UNCHANGED <<roleOf, cls, built, out, others>>

On(evarg, priority, target) == Register(evarg, priority, target, MaxListeners)

OnFiltered(evarg, priority, target) == Register(evarg, priority, target, MaxFiltered)

OnDecorated(evarg, priority, target) == Register(evarg, priority, target, MaxDecorated)

(***************************************************************************)
(* The attachment decorators: command, keyword, matcher, param_convert,    *)
(* role, nlp, all through BotApplication.__set_decorator.                  *)
(***************************************************************************)
\* set_decorator_mut_silent: the bug of testing `flag` in place of `not flag`
set_decorator_mut_silent(ls, value, type, target) ==
    LET r == set_attachment(ls, target, type, value)
    IN [listeners |-> r.listeners, flag |-> r.flag, warned |-> r.flag, ret |-> target]

\* __set_decorator(value, type, desc)(target)
set_decorator(ls, value, type, target) ==
    LET r == set_attachment(ls, target, type, value)
    IN [listeners |-> r.listeners, flag |-> r.flag, warned |-> ~r.flag, ret |-> target]

command(ls, target) == set_decorator(ls, "command", "matcher", target)

keyword(ls, target) == set_decorator(ls, "keyword", "matcher", target)

matcher(ls, target) == set_decorator(ls, "custom", "matcher", target)

param_convert(ls, pc, target) == set_decorator(ls, pc, "param_convert", target)

\* role_mut_no_todo: the bug of dropping the fallback handler
role_mut_no_todo(ls, r, todo, target) ==
    set_decorator(ls, [set |-> TRUE, role |-> r, todo |-> None], "role", target)

\* role_mut_any: the bug of storing every role in place of the argument
role_mut_any(ls, r, todo, target) ==
    set_decorator(ls, [set |-> TRUE, role |-> Roles, todo |-> todo], "role", target)

role(ls, r, todo, target) ==
    set_decorator(ls, [set |-> TRUE, role |-> r, todo |-> todo], "role", target)

\* nlp_mut_matcher_slot: the bug of passing 'matcher' as the attachment type
nlp_mut_matcher_slot(ls, target) == set_decorator(ls, "nlp", "matcher", target)

nlp(ls, target) == set_decorator(ls, "nlp", "nlp", target)

RoleArgs == {{"Admin"}}
TodoArgs == {None} \cup Fallbacks
DecoratorKinds == {"command", "keyword", "matcher", "param_convert", "nlp"}

Decorated(kind, target) ==
    CASE kind = "command" -> command(listeners, target)
      [] kind = "keyword" -> keyword(listeners, target)
      [] kind = "matcher" -> matcher(listeners, target)
      [] kind = "param_convert" -> param_convert(listeners, "str", target)
      [] kind = "nlp" -> nlp(listeners, target)

\* @app.command(..) / keyword / matcher / param_convert / nlp applied to target
Attach(kind, target) ==
    LET r == Decorated(kind, target)
    IN /\ listeners' = r.listeners
       /\ last' = [NoLast EXCEPT !.op = "attach", !.kind = kind, !.target = target,
                                 !.ret = r.ret, !.warned = r.warned, !.flag = r.flag]
       /\ UNCHANGED <<roleOf, history, cls, built, out, others>>

\* @app.role(r, todo) applied to target
AttachRole(r, todo, target) ==
    LET res == role(listeners, r, todo, target)
    IN /\ listeners' = res.listeners
       /\ roleOf' = IF target \in AsyncHandlers /\ IsListener(listeners, target)
                    THEN [roleOf EXCEPT ![target] = [set |-> TRUE, role |-> r, todo |-> todo]]
                    ELSE roleOf
       /\ last' = [NoLast EXCEPT !.op = "attach", !.kind = "role", !.target = target,
                                 !.ret = res.ret, !.warned = res.warned, !.flag = res.flag]
       /\ UNCHANGED <<history, cls, built, out, others>>

(***************************************************************************)
(* Dispatch of one inbound event over the registry.                        *)
(***************************************************************************)
MatcherMatches(m, msg) ==
    CASE m = "command" -> msg = "/ping 1"
      [] m = "keyword" -> msg = "say hello"
      [] OTHER -> TRUE

NlpPasses(n, msg) == msg = "say hello"

RoleAllows(l, sender) == ~l.role.set \/ sender \in l.role.role

Passes(l, sender, msg) ==
    /\ RoleAllows(l, sender)
    /\ l.matcher = None \/ MatcherMatches(l.matcher, msg)
    /\ l.nlp = None \/ NlpPasses(l.nlp, msg)

FallbackArgs == <<"event", "message", "message_chain">>

\* what the traversal does at the listener at position i
Consider(l, i, sender, msg) ==
    IF ~RoleAllows(l, sender)
    THEN IF l.role.todo # None
         THEN <<[kind |-> "todo", fn |-> l.role.todo, idx |-> i, args |-> FallbackArgs]>>
         ELSE <<>>
    ELSE IF l.matcher # None /\ ~MatcherMatches(l.matcher, msg) THEN <<>>
    ELSE IF l.nlp # None /\ ~NlpPasses(l.nlp, msg) THEN <<>>
    ELSE <<[kind |-> "handler", fn |-> l.target, idx |-> i,
            args |-> <<"params", l.param_convert>>]>>

RECURSIVE Traverse(_, _, _, _)
Traverse(seq, i, sender, msg) ==
    IF i > Len(seq) THEN <<>>
    ELSE Consider(seq[i], i, sender, msg) \o Traverse(seq, i + 1, sender, msg)

Dispatch(ev, sender, msg) ==
    /\ last' = [NoLast EXCEPT !.op = "dispatch", !.ev = <<ev>>, !.sender = sender,
                              !.msg = msg,
                              !.trace = Traverse(listeners[ev], 1, sender, msg)]
    /\ UNCHANGED <<listeners, roleOf, history, cls, built, out, others>>

(***************************************************************************)
(* Element and MessageChain.  MessageChain.__new__ returns the class       *)
(* itself, so every chain is the one class object and its data are the     *)
(* class attributes _strings, _result and elements.                        *)
(***************************************************************************)
MaxLen == 2
MaxChains == 2

Plain(text) == [kind |-> "Plain", text |-> text]
Face == [kind |-> "Face", text |-> <<"1">>]
Elements == {Plain(<<"a">>), Face}

\* Element.to_code / Element.as_display
element_to_code(e) ==
    IF e.kind = "Plain" THEN e.text ELSE <<"[", "f", ":">> \o e.text \o <<"]">>

element_as_display(e) ==
    IF e.kind = "Plain" THEN e.text ELSE <<"F">>

StringAtoms == {<<"a">>, <<"b">>}

SeqsUpTo(S, n) == UNION {[1..k -> S] : k \in 0..n}

\* the class before any chain is built: no _strings, _result or elements
NoAttributes ==
    [strings |-> <<>>, result |-> <<>>, hasResult |-> FALSE,
     elements |-> [isList |-> TRUE, elems |-> <<>>], hasElements |-> FALSE]

RECURSIVE Accumulate(_, _)
Accumulate(result, strings) ==
    IF strings = <<>> THEN result
    ELSE Accumulate(result \o Head(strings), Tail(strings))

\* new_mut_no_reset: the bug of leaving out `cls._result = ''`
new_mut_no_reset(c, strings) ==
    [c EXCEPT !.strings = strings, !.result = Accumulate(c.result, strings),
              !.hasResult = TRUE]

\* MessageChain.__new__(cls, strings): the class attributes after the call
new(c, strings) ==
    [c EXCEPT !.strings = strings, !.result = Accumulate(<<>>, strings),
              !.hasResult = TRUE]

\* an argument passed to create: one Element, or a list / tuple of Elements
ElementArg(e) == [isList |-> FALSE, elems |-> <<e>>]
ListArg(es) == [isList |-> TRUE, elems |-> es]

\* iterating an Element raises TypeError
IsIterable(arg) == arg.isList

\* create_mut_display: the bug of rendering with as_display in place of to_code
create_mut_display(c, args) ==
    IF Len(args) # 1 THEN [cls |-> c, exc |-> "TypeError"]
    ELSE LET c1 == [c EXCEPT !.elements = args[1], !.hasElements = TRUE]
         IN IF ~IsIterable(args[1]) THEN [cls |-> c1, exc |-> "TypeError"]
            ELSE [cls |-> new(c1, [i \in 1..Len(args[1].elems) |->
                                      element_as_display(args[1].elems[i])]),
                  exc |-> None]

\* MessageChain.create called with the positional arguments args
create(c, args) ==
    IF Len(args) # 1 THEN [cls |-> c, exc |-> "TypeError"]
    ELSE LET c1 == [c EXCEPT !.elements = args[1], !.hasElements = TRUE]
         IN IF ~IsIterable(args[1]) THEN [cls |-> c1, exc |-> "TypeError"]
            ELSE [cls |-> new(c1, [i \in 1..Len(args[1].elems) |->
                                      element_to_code(args[1].elems[i])]),
                  exc |-> None]

to_code(c) == c.result

RECURSIVE Join(_)
Join(strings) ==
    IF strings = <<>> THEN <<>> ELSE Head(strings) \o Join(Tail(strings))

as_display(c) ==
    Join([i \in 1..Len(c.elements.elems) |-> element_as_display(c.elements.elems[i])])

\* chain.as_display(): AttributeError while the class has no `elements`
\* attribute, TypeError when `elements` is one Element, else the joined text
as_display_call(c) ==
    IF ~c.hasElements THEN [exc |-> "AttributeError", value |-> <<>>]
    ELSE IF ~IsIterable(c.elements) THEN [exc |-> "TypeError", value |-> <<>>]
    ELSE [exc |-> None, value |-> as_display(c)]

\* chain = MessageChain(strings)
BuildFromStrings(strings) ==
    /\ Len(built) < MaxChains
    /\ cls' = new(cls, strings)
    /\ built' = Append(built, [path |-> "strings", strings |-> strings, elements |-> <<>>,
                               code |-> to_code(cls')])
    /\ UNCHANGED <<listeners, roleOf, history, last, out, others>>

\* chain = MessageChain.create(elements)
BuildFromElements(elements) ==
    /\ Len(built) < MaxChains
    /\ cls' = create(cls, <<ListArg(elements)>>).cls
    /\ built' = Append(built, [path |-> "create", strings |-> <<>>, elements |-> elements,
                               code |-> to_code(cls')])
    /\ UNCHANGED <<listeners, roleOf, history, last, out, others>>

(***************************************************************************)
(* BotApplication.send_msg                                                 *)
(***************************************************************************)
MaxItems == 2
MaxPrepared == 1

NoOut ==
    [op |-> "init", msg |-> [kind |-> None, text |-> <<>>, items |-> <<>>],
     held |-> <<>>, fails |-> FALSE, calls |-> <<>>, raised |-> None, errors |-> 0, warnings |-> 0]

ChainMsg == [kind |-> "chain", text |-> <<>>, items |-> <<>>]
StrMsg(text) == [kind |-> "str", text |-> text, items |-> <<>>]
ElementMsg(e) == [kind |-> "element", text |-> <<>>, items |-> <<ElementArg(e)>>]
SeqMsg(kind, items) == [kind |-> kind, text |-> <<>>, items |-> items]
OtherMsg == [kind |-> "int", text |-> <<>>, items |-> <<>>]

Items == {ElementArg(e) : e \in Elements} \cup {ListArg(<<Plain(<<"a">>), Face>>)}

SendMessages ==
    {ChainMsg, OtherMsg}
        \cup {StrMsg(t) : t \in {<<>>, <<"a">>}}
        \cup {ElementMsg(e) : e \in Elements}
        \cup {SeqMsg(k, items) : k \in {"list", "tuple"}, items \in SeqsUpTo(Items, MaxItems)}

\* type(message): a chain is the class MessageChain itself, whose type is `type`
type_of(message) ==
    CASE message.kind = "chain" -> "type"
      [] message.kind = "element" -> message.items[1].elems[1].kind
      [] OTHER -> message.kind

ElementSubclasses == {"Plain", "Face"}

\* self.adapter.send_message(target, chain): the adapter reads the wire form
send(c, fails) ==
    [cls |-> c, calls |-> <<to_code(c)>>, warnings |-> 0,
     exc |-> IF fails THEN "SendError" ELSE None]

created_then_send(r, fails) ==
    IF r.exc # None
    THEN [cls |-> r.cls, calls |-> <<>>, warnings |-> 0, exc |-> r.exc]
    ELSE send(r.cls, fails)

\* error_mut_silent: the bug of an else branch that logs nothing
error_mut_silent(c) == [cls |-> c, calls |-> <<>>, warnings |-> 0, exc |-> None]

error(c) == [cls |-> c, calls |-> <<>>, warnings |-> 1, exc |-> None]

\* the body of the try block
try_body(c, message, fails) ==
    LET t == type_of(message)
        is_element == t \in ElementSubclasses \/ t = "Element"
        is_list == t \in {"list", "tuple"}
    IN IF t = "MessageChain" THEN send(c, fails)
       ELSE IF t = "str"
       THEN created_then_send(create(c, <<ElementArg(Plain(message.text))>>), fails)
       ELSE IF is_element \/ is_list
       THEN IF is_element
            THEN created_then_send(create(c, <<message.items[1]>>), fails)
            ELSE created_then_send(create(c, message.items), fails)
       ELSE error(c)

\* send_msg_mut_swallow: the bug of an except clause that logs and does not raise
send_msg_mut_swallow(c, message, fails) ==
    LET b == try_body(c, message, fails)
    IN [cls |-> b.cls, calls |-> b.calls, warnings |-> b.warnings,
        errors |-> IF b.exc # None THEN 1 ELSE 0, raised |-> None]

send_msg(c, message, fails) ==
    LET b == try_body(c, message, fails)
    IN [cls |-> b.cls, calls |-> b.calls, warnings |-> b.warnings,
        errors |-> IF b.exc # None THEN 1 ELSE 0, raised |-> b.exc]

\* a handler builds a chain that it may send later
PrepareFromStrings(strings) ==
    /\ cls' = new(cls, strings)
    /\ UNCHANGED <<listeners, roleOf, history, last, built, out, others>>

PrepareFromElements(elements) ==
    /\ cls' = create(cls, <<ListArg(elements)>>).cls
    /\ UNCHANGED <<listeners, roleOf, history, last, built, out, others>>

\* await app.send_msg(target, message), the adapter failing or not
SendMsg(message, fails) ==
    LET r == send_msg(cls, message, fails)
    IN /\ message.kind = "chain" => cls.hasResult
       /\ cls' = r.cls
       /\ out' = [op |-> "send_msg", msg |-> message,
                  held |-> IF message.kind = "chain" THEN to_code(cls) ELSE <<>>,
                  fails |-> fails, calls |-> r.calls,
                  raised |-> r.raised, errors |-> r.errors, warnings |-> r.warnings]
       /\ UNCHANGED <<listeners, roleOf, history, last, built, others>>

(***************************************************************************)
(* Dispatch with handlers that raise: each invocation is guarded, the      *)
(* failure is logged and the traversal goes on.                            *)
(***************************************************************************)
\* the listener at position i is considered and its handler, if invoked,
\* raises when it is one of `failing`
Invoke(l, i, sender, msg, failing) ==
    LET es == Consider(l, i, sender, msg)
    IN [entries |->
            [k \in 1..Len(es) |->
                [kind |-> es[k].kind, fn |-> es[k].fn, idx |-> es[k].idx,
                 args |-> es[k].args,
                 outcome |-> IF es[k].kind = "handler" /\ es[k].fn \in failing
                             THEN "raised" ELSE "returned"]],
        raises |-> \E k \in 1..Len(es) : es[k].kind = "handler" /\ es[k].fn \in failing]

\* guarded_mut_propagate: the bug of letting the handler's exception escape
guarded_mut_propagate(step) ==
    [entries |-> step.entries, logged |-> 0, escaped |-> step.raises]

\* the per-listener guard: a raised exception is caught and logged
guarded(step) ==
    [entries |-> step.entries, logged |-> IF step.raises THEN 1 ELSE 0,
     escaped |-> FALSE]

RECURSIVE TraverseGuarded(_, _, _, _, _)
TraverseGuarded(seq, i, sender, msg, failing) ==
    IF i > Len(seq) THEN [trace |-> <<>>, logged |-> 0, raised |-> None]
    ELSE LET g == guarded(Invoke(seq[i], i, sender, msg, failing))
             rest == TraverseGuarded(seq, i + 1, sender, msg, failing)
         IN IF g.escaped
            THEN [trace |-> g.entries, logged |-> g.logged, raised |-> "HandlerError"]
            ELSE [trace |-> g.entries \o rest.trace, logged |-> g.logged + rest.logged,
                  raised |-> rest.raised]

DispatchRaising(ev, sender, msg, failing) ==
    LET r == TraverseGuarded(listeners[ev], 1, sender, msg, failing)
    IN /\ last' = [NoLast EXCEPT !.op = "dispatch", !.ev = <<ev>>, !.sender = sender,
                                 !.msg = msg, !.trace = r.trace,
                                 !.errored = r.logged > 0, !.raised = r.raised]
       /\ UNCHANGED <<listeners, roleOf, history, cls, built, out, others>>

(***************************************************************************)
(* Construction: MiraiAdapter.__init__, then BotApplication.__init__ with  *)
(* set_config.  ListenerManager objects are named by creation order.       *)
(***************************************************************************)
NoWiring == [managers |-> 0, adapter_lm |-> 0, app_lm |-> 0, config_lm |-> 0]

\* MiraiAdapter.__init__: a new ListenerManager, also stored in the shared config
MiraiAdapter_init(w) ==
    [w EXCEPT !.managers = w.managers + 1,
              !.adapter_lm = w.managers + 1,
              !.config_lm = w.managers + 1]

\* BotApplication.set_config: every attribute of the application goes to CONFIG
set_config(w) == [w EXCEPT !.config_lm = w.app_lm]

\* BotApplication.__init__: another new ListenerManager, then set_config
BotApplication_init(w) ==
    set_config([w EXCEPT !.managers = w.managers + 1, !.app_lm = w.managers + 1])

\* the listeners a ListenerManager object holds: on and the attachment
\* decorators write to self.listener_manager of the application only
RegistryOf(manager) ==
    IF manager = wiring.app_lm THEN listeners ELSE [e \in Events |-> <<>>]

(***************************************************************************)
(* A dispatch pass whose handlers suspend: between two invocations other   *)
(* code may register or decorate.  The pass reads the listener sequence it *)
(* took when it began.                                                     *)
(***************************************************************************)
NoPass ==
    [active |-> FALSE, ev |-> None, sender |-> None, msg |-> None,
     snapshot |-> <<>>, pos |-> 0, trace |-> <<>>]

\* pass_source_mut_live: the bug of iterating the live registry
pass_source_mut_live(p, ls) == ls[p.ev]

\* the listener sequence a pass in progress iterates
pass_source(p, ls) == p.snapshot

PassBegin(ev, sender, msg) ==
    /\ ~pass.active
    /\ pass' = [active |-> TRUE, ev |-> ev, sender |-> sender, msg |-> msg,
                snapshot |-> listeners[ev], pos |-> 1, trace |-> <<>>]
    /\ UNCHANGED <<listeners, roleOf, history, last, cls, built, out, wiring, tasks>>

\* the pass considers its next listener; an invoked handler suspends the pass
PassStep ==
    LET src == pass_source(pass, listeners)
    IN /\ pass.active
       /\ pass.pos <= Len(src)
       /\ pass' = [pass EXCEPT
                      !.trace = pass.trace \o
                                  Consider(src[pass.pos], pass.pos, pass.sender, pass.msg),
                      !.pos = pass.pos + 1]
       /\ UNCHANGED <<listeners, roleOf, history, last, cls, built, out, wiring, tasks>>

PassEnd ==
    /\ pass.active
    /\ pass.pos > Len(pass_source(pass, listeners))
    /\ pass' = NoPass
    /\ UNCHANGED <<listeners, roleOf, history, last, cls, built, out, wiring, tasks>>

(***************************************************************************)
(* Two cooperatively scheduled handlers that each build a chain and send   *)
(* it, a suspension point lying between the build and the adapter's read.  *)
(***************************************************************************)
NoTasks ==
    [t \in AsyncHandlers |-> [pc |-> "idle", path |-> None, elements |-> <<>>, calls |-> <<>>]]

TaskElements == SeqsUpTo(Elements, MaxLen) \ {<<>>}

\* chain = MessageChain.create([...]) in the handler, which then suspends
TaskBuild(t, elements) ==
    /\ tasks[t].pc = "idle"
    /\ cls' = create(cls, <<ListArg(elements)>>).cls
    /\ tasks' = [tasks EXCEPT ![t] = [pc |-> "built", path |-> "chain",
                                      elements |-> elements, calls |-> <<>>]]
    /\ UNCHANGED <<listeners, roleOf, history, last, built, out, wiring, pass>>

\* await app.send_msg(target, chain) once the handler resumes
TaskSendChain(t) ==
    LET r == send_msg(cls, ChainMsg, FALSE)
    IN /\ tasks[t].pc = "built"
       /\ cls' = r.cls
       /\ tasks' = [tasks EXCEPT ![t].pc = "sent", ![t].calls = r.calls]
       /\ UNCHANGED <<listeners, roleOf, history, last, built, out, wiring, pass>>

\* await app.send_msg(target, [[...]]): send_msg builds the chain itself and
\* the adapter's send_message suspends before it reads the chain
TaskSendList(t, elements) ==
    LET r == create(cls, SeqMsg("list", <<ListArg(elements)>>).items)
    IN /\ tasks[t].pc = "idle"
       /\ r.exc = None
       /\ cls' = r.cls
       /\ tasks' = [tasks EXCEPT ![t] = [pc |-> "reading", path |-> "list",
                                         elements |-> elements, calls |-> <<>>]]
       /\ UNCHANGED <<listeners, roleOf, history, last, built, out, wiring, pass>>

\* the adapter resumes and reads the wire form of the chain it was given
TaskAdapterRead(t) ==
    /\ tasks[t].pc = "reading"
    /\ tasks' = [tasks EXCEPT ![t].pc = "sent", ![t].calls = send(cls, FALSE).calls]
    /\ UNCHANGED <<listeners, roleOf, history, last, cls, built, out, wiring, pass>>

Init ==
    /\ wiring = BotApplication_init(MiraiAdapter_init(NoWiring))
    /\ pass = NoPass
    /\ tasks = NoTasks
    /\ listeners = [e \in Events |-> <<>>]
    /\ roleOf = [t \in AsyncHandlers |-> NoRole]
    /\ history = <<>>
    /\ last = NoLast
    /\ cls = NoAttributes
    /\ built = <<>>
    /\ out = NoOut

Next ==
    \/ \E a \in EventArgs, p \in Priorities, t \in Targets : On(a, p, t)
    \/ \E e \in Events : Dispatch(e, "Member", "say hello")

Spec == Init /\ [][Next]_vars

AttachNext ==
    \/ \E a \in SingleEventArgs, p \in FewPriorities, t \in Targets : OnDecorated(a, p, t)
    \/ \E k \in DecoratorKinds, t \in Targets : Attach(k, t)
    \/ \E r \in RoleArgs, todo \in TodoArgs, t \in Targets : AttachRole(r, todo, t)

AttachSpec == Init /\ [][AttachNext]_vars

FilterKinds == {"command", "nlp"}

FilterNext ==
    \/ \E a \in SingleEventArgs, p \in FewPriorities, t \in AsyncHandlers : OnFiltered(a, p, t)
    \/ \E k \in FilterKinds, t \in AsyncHandlers : Attach(k, t)
    \/ \E r \in RoleArgs, todo \in TodoArgs, t \in AsyncHandlers : AttachRole(r, todo, t)
    \/ \E e \in Events, r \in Roles, m \in Messages : Dispatch(e, r, m)

FilterSpec == Init /\ [][FilterNext]_vars

FailNext ==
    \/ \E a \in SingleEventArgs, p \in FewPriorities, t \in AsyncHandlers : OnFiltered(a, p, t)
    \/ \E t \in AsyncHandlers : Attach("command", t)
    \/ \E e \in Events, m \in Messages, failing \in SUBSET AsyncHandlers :
          DispatchRaising(e, "Member", m, failing)

FailSpec == Init /\ [][FailNext]_vars

TaskNext ==
    \/ \E t \in AsyncHandlers, es \in TaskElements : TaskBuild(t, es)
    \/ \E t \in AsyncHandlers : TaskSendChain(t)
    \/ \E t \in AsyncHandlers, es \in TaskElements : TaskSendList(t, es)
    \/ \E t \in AsyncHandlers : TaskAdapterRead(t)

TaskSpec == Init /\ [][TaskNext]_vars

PassNext ==
    \/ \E a \in SingleEventArgs, p \in FewPriorities, t \in AsyncHandlers : OnFiltered(a, p, t)
    \/ \E t \in AsyncHandlers : Attach("command", t)
    \/ \E e \in Events, m \in Messages : PassBegin(e, "Member", m)
    \/ PassStep
    \/ PassEnd

PassSpec == Init /\ [][PassNext]_vars

\* one handler registered and decorated in every order
OrderNext ==
    \/ \E a \in SingleEventArgs, p \in FewPriorities : OnDecorated(a, p, "h1")
    \/ \E k \in DecoratorKinds \ {"matcher"}, t \in AsyncHandlers : Attach(k, t)
    \/ \E r \in RoleArgs, todo \in TodoArgs, t \in AsyncHandlers : AttachRole(r, todo, t)

OrderSpec == Init /\ [][OrderNext]_vars

ChainNext ==
    \/ \E strings \in SeqsUpTo(StringAtoms, MaxLen) : BuildFromStrings(strings)
    \/ \E elements \in SeqsUpTo(Elements, MaxLen) : BuildFromElements(elements)

ChainSpec == Init /\ [][ChainNext]_vars

SendNext ==
    \/ \E strings \in SeqsUpTo(StringAtoms, MaxPrepared) : PrepareFromStrings(strings)
    \/ \E elements \in SeqsUpTo(Elements, MaxPrepared) : PrepareFromElements(elements)
    \/ \E m \in SendMessages, fails \in BOOLEAN : SendMsg(m, fails)

SendSpec == Init /\ [][SendNext]_vars

(***************************************************************************)
(* Registration and dispatch order.                                        *)
(***************************************************************************)
\* the listeners the accepted registrations asked for under event e, in the
\* order they were asked for
RECURSIVE Requested(_, _)
Requested(h, e) ==
    IF h = <<>> THEN <<>>
    ELSE LET r == Head(h)
             mine == SelectSeq(r.evs, LAMBDA x : x = e)
         IN [i \in 1..Len(mine) |-> [target |-> r.target, priority |-> r.priority]]
                \o Requested(Tail(h), e)

\* ascending priority, registration order among equal priorities
RECURSIVE ByPriority(_, _)
ByPriority(req, p) ==
    IF p > MaxPrio THEN <<>>
    ELSE SelectSeq(req, LAMBDA r : r.priority = p) \o ByPriority(req, p + 1)

Invoked(e) ==
    [i \in 1..Len(last.trace) |->
        [target |-> last.trace[i].fn,
         priority |-> listeners[e][last.trace[i].idx].priority]]

\* C1: a dispatch invokes the handlers registered for the event in ascending
\* priority number, and handlers of equal priority in registration order.
C1_DispatchOrder ==
    last.op = "dispatch" =>
        /\ \A i \in 1..Len(last.trace) : last.trace[i].kind = "handler"
        /\ Invoked(last.ev[1]) = ByPriority(Requested(history, last.ev[1]), 1)

C1_Witness ==
    /\ last.op = "dispatch"
    /\ Len(history) = 3
    /\ \A i \in 1..3 : history[i].evs = last.ev
    /\ history[1].priority = history[3].priority
    /\ history[2].priority < history[1].priority
    /\ history[1].target # history[3].target
    /\ [i \in 1..Len(last.trace) |-> last.trace[i].fn]
          = <<history[2].target, history[1].target, history[3].target>>

NonPositive(priority) == priority.isInt /\ priority.val <= 0

C3_RejectedRecoveredLocally ==
    (last.op = "on" /\ (NonPositive(last.priority) \/ last.target \notin AsyncHandlers))
        => (last.raised = None /\ last.ret = last.target)

\* C4: an attachment decorator applied to a handler that is not a registered
\* listener reports failure, changes nothing in the registry, does not raise
\* and returns the handler.
C4_UnregisteredAttachment ==
    [][(last'.op = "attach" /\ ~IsListener(listeners, last'.target)) =>
            /\ listeners' = listeners
            /\ ~last'.flag
            /\ last'.warned
            /\ last'.raised = None
            /\ last'.ret = last'.target]_vars

C4_Witness ==
    /\ last.op = "attach"
    /\ ~IsListener(listeners, last.target)
    /\ last.warned
    /\ \E e \in Events : \E i \in 1..Len(listeners[e]) :
          listeners[e][i].matcher # None /\ listeners[e][i].role.set

HandlerEntries(i) ==
    {k \in 1..Len(last.trace) : last.trace[k].idx = i /\ last.trace[k].kind = "handler"}

TodoEntries(i) ==
    {k \in 1..Len(last.trace) : last.trace[k].idx = i /\ last.trace[k].kind = "todo"}

Denied(l) == l.role.set /\ last.sender \notin roleOf[l.target].role

\* C10: a listener whose role filter rejects the sender has its fallback
\* invoked exactly once with (event, message, message_chain), or nothing when
\* no fallback was given; its handler is not invoked, and every other listener
\* that passes its filters is still invoked.
C10_RoleFallback ==
    last.op = "dispatch" =>
        LET L == listeners[last.ev[1]]
        IN \A i \in 1..Len(L) :
              /\ Denied(L[i]) =>
                    /\ HandlerEntries(i) = {}
                    /\ IF roleOf[L[i].target].todo # None
                       THEN /\ Cardinality(TodoEntries(i)) = 1
                            /\ \A k \in TodoEntries(i) :
                                  /\ last.trace[k].fn = roleOf[L[i].target].todo
                                  /\ last.trace[k].args = FallbackArgs
                       ELSE TodoEntries(i) = {}
              /\ Passes(L[i], last.sender, last.msg) =>
                    Cardinality(HandlerEntries(i)) = 1

C10_Witness ==
    /\ last.op = "dispatch"
    /\ LET L == listeners[last.ev[1]]
       IN /\ Len(L) = 2
          /\ Denied(L[1])
          /\ L[1].role.todo = "fb"
          /\ Len(last.trace) = 2
          /\ last.trace[1].kind = "todo"
          /\ last.trace[2].kind = "handler"

(***************************************************************************)
(* Message chains.                                                         *)
(***************************************************************************)
LastBuilt == built[Len(built)]

ElementCodes(elements) == [i \in 1..Len(elements) |-> element_to_code(elements[i])]

\* C5: a chain keeps the wire form it had right after it was built, whatever
\* chains are built after it.
C5_ChainNeverMutated ==
    \A i \in 1..Len(built) : to_code(cls) = built[i].code

\* C6: create(E).to_code() is the concatenation of the elements' wire forms in
\* order, and is the wire form of the chain built from those rendered strings.
C6_CreateConcatenates ==
    (built # <<>> /\ LastBuilt.path = "create") =>
        /\ LastBuilt.code = Join(ElementCodes(LastBuilt.elements))
        /\ LastBuilt.code = to_code(new(cls, ElementCodes(LastBuilt.elements)))

C6_Witness ==
    /\ Len(built) = 2
    /\ built[1].code # <<>>
    /\ LastBuilt.path = "create"
    /\ LastBuilt.elements = <<Face, Plain(<<"a">>)>>
    /\ LastBuilt.code = <<"[", "f", ":", "1", "]", "a">>

\* C7: the chain built from the strings S has the concatenation of S in order
\* as its wire form, the empty string for empty S, whatever was built before.
C7_FromStringsConcatenates ==
    (built # <<>> /\ LastBuilt.path = "strings") =>
        /\ LastBuilt.code = Join(LastBuilt.strings)
        /\ LastBuilt.strings = <<>> => LastBuilt.code = <<>>

C7_Witness ==
    /\ Len(built) = 2
    /\ built[1].code # <<>>
    /\ LastBuilt.path = "strings"
    /\ LastBuilt.strings = <<>>
    /\ LastBuilt.code = <<>>

(***************************************************************************)
(* Sending.                                                                *)
(***************************************************************************)
Supported(m) ==
    \/ m.kind \in {"chain", "str", "element"}
    \/ /\ m.kind \in {"list", "tuple"}
       /\ Len(m.items) >= 1
       /\ \A i \in 1..Len(m.items) : ~m.items[i].isList

ExpectedWire(o) ==
    CASE o.msg.kind = "chain" -> o.held
      [] o.msg.kind = "str" -> o.msg.text
      [] OTHER -> Join([i \in 1..Len(o.msg.items) |->
                            element_to_code(o.msg.items[i].elems[1])])

\* C8: for a chain, an Element, a list or tuple of Elements or a string,
\* send_msg calls the adapter's send_message once with the concatenated wire
\* forms and does not raise.
C8_SendNormalizes ==
    (out.op = "send_msg" /\ Supported(out.msg) /\ ~out.fails) =>
        /\ out.calls = <<ExpectedWire(out)>>
        /\ out.raised = None

\* C9: when the adapter's send_message fails, send_msg logs the failure once
\* and raises that same failure to its caller.
C9_SendFailureReraised ==
    (out.op = "send_msg" /\ out.fails /\ out.calls # <<>>) =>
        /\ out.errors = 1
        /\ out.raised = "SendError"

C9_Witness ==
    /\ out.op = "send_msg"
    /\ out.fails
    /\ Len(out.calls) = 1
    /\ out.raised = "SendError"

\* C19: send_msg with a message of an unsupported type logs a warning, makes
\* no call to the adapter's send_message and returns without raising.
C19_UnsupportedTypeWarned ==
    (out.op = "send_msg" /\ out.msg.kind = "int") =>
        /\ out.warnings = 1
        /\ out.calls = <<>>
        /\ out.errors = 0
        /\ out.raised = None

C19_Witness ==
    /\ out.op = "send_msg"
    /\ out.msg = OtherMsg
    /\ out.warnings = 1
    /\ cls.hasResult

\* C14: the display rendering of a chain built from strings without elements
\* is a distinct failure, never the display text of an earlier chain's elements.
C14_DisplayUnavailable ==
    (built # <<>> /\ LastBuilt.path = "strings") => as_display_call(cls).exc # None

\* C16: after construction the adapter, the application and the shared
\* configuration hold one and the same listener registry.
C16_OneRegistry ==
    /\ RegistryOf(wiring.adapter_lm) = RegistryOf(wiring.app_lm)
    /\ RegistryOf(wiring.config_lm) = RegistryOf(wiring.app_lm)

RemoveAt(seq, k) == SubSeq(seq, 1, k - 1) \o SubSeq(seq, k + 1, Len(seq))

Accepted(l) ==
    l.op = "on" /\ l.priority.isInt /\ l.priority.val > 0 /\ l.target \in AsyncHandlers

\* C15: an accepted registration for a list or tuple of n distinct event types
\* adds exactly one listener under each of them, with the given priority and
\* handler, and none elsewhere; one type, a one-element list and a one-element
\* tuple add exactly one listener.
C15_OneListenerPerEventType ==
    [][Accepted(last') =>
          /\ Len(history') = Len(history) + 1
          /\ LET r == history'[Len(history')]
                 added(e) == [Listener(e, last'.target) EXCEPT
                                  !.priority = last'.priority.val]
             IN /\ r.target = last'.target
                /\ r.priority = last'.priority.val
                /\ \A e \in Events :
                      IF \E i \in 1..Len(r.evs) : r.evs[i] = e
                      THEN \E k \in 1..Len(listeners'[e]) :
                              /\ listeners'[e][k] = added(e)
                              /\ RemoveAt(listeners'[e], k) = listeners[e]
                      ELSE listeners'[e] = listeners[e]]_vars

C15_Witness ==
    /\ Accepted(last)
    /\ Len(history) = 2
    /\ Len(history[2].evs) = 2
    /\ \A e \in Events :
          /\ Len(listeners[e]) >= 1
          /\ \E k \in 1..Len(listeners[e]) :
                /\ listeners[e][k].target = last.target
                /\ listeners[e][k].priority = last.priority.val

\* the listener passes the role filter requested for it, its matcher and its
\* NLP binding
PassesOwnFilters(l) ==
    /\ ~Denied(l)
    /\ l.matcher = None \/ MatcherMatches(l.matcher, last.msg)
    /\ l.nlp = None \/ NlpPasses(l.nlp, last.msg)

\* C12: in one dispatch pass a listener's handler is invoked (once) if and
\* only if that listener passes its own role, matcher and NLP filters,
\* whatever happened to the listeners before it.
C12_BroadcastToAllMatching ==
    last.op = "dispatch" =>
        LET L == listeners[last.ev[1]]
        IN \A i \in 1..Len(L) :
              Cardinality(HandlerEntries(i)) = IF PassesOwnFilters(L[i]) THEN 1 ELSE 0

C12_Witness ==
    /\ last.op = "dispatch"
    /\ LET L == listeners[last.ev[1]]
       IN /\ Len(L) = 2
          /\ L[1].matcher = "command"
          /\ ~MatcherMatches(L[1].matcher, last.msg)
          /\ L[2].nlp # None
          /\ HandlerEntries(1) = {}
          /\ Cardinality(HandlerEntries(2)) = 1

(***************************************************************************)
(* Order of the attachment decorators.                                     *)
(***************************************************************************)
OrderedDecorators ==
    {[kind |-> k, role |-> {}, todo |-> None] :
        k \in {"command", "keyword", "param_convert", "nlp"}}
      \cup {[kind |-> "role", role |-> r, todo |-> t] : r \in RoleArgs, t \in TodoArgs}

\* the registry after the decorator d is applied to target
Applied(ls, d, target) ==
    CASE d.kind = "command" -> command(ls, target).listeners
      [] d.kind = "keyword" -> keyword(ls, target).listeners
      [] d.kind = "param_convert" -> param_convert(ls, "str", target).listeners
      [] d.kind = "nlp" -> nlp(ls, target).listeners
      [] d.kind = "role" -> role(ls, d.role, d.todo, target).listeners

\* the attachment a decorator sets
Slot(d) == IF d.kind \in {"command", "keyword"} THEN "matcher" ELSE d.kind

Commute(d1, d2, target) ==
    Applied(Applied(listeners, d1, target), d2, target)
        = Applied(Applied(listeners, d2, target), d1, target)

\* C13: for a registered handler, decorators of different kinds among command,
\* keyword, role, param_convert and nlp give the same attachments in either
\* order.
C13_AnyOrder ==
    \A t \in AsyncHandlers :
        IsListener(listeners, t) =>
            \A d1 \in OrderedDecorators :
                \A d2 \in {d \in OrderedDecorators : d.kind # d1.kind} :
                    Commute(d1, d2, t)

\* C13 as amended: decorators that set different attachments give the same
\* attachments in either order (command and keyword both set the matcher).
C13_DifferentSlotsAnyOrder ==
    \A t \in AsyncHandlers :
        IsListener(listeners, t) =>
            \A d1 \in OrderedDecorators :
                \A d2 \in {d \in OrderedDecorators : Slot(d) # Slot(d1)} :
                    Commute(d1, d2, t)

C13_Witness ==
    /\ last.op = "attach"
    /\ \E e \in Events : \E i \in 1..Len(listeners[e]) :
          /\ listeners[e][i].target = last.target
          /\ listeners[e][i].matcher = "keyword"
          /\ listeners[e][i].role.set
          /\ listeners[e][i].param_convert # None
          /\ listeners[e][i].nlp # None

RaisedEntries == {k \in 1..Len(last.trace) : last.trace[k].outcome = "raised"}

\* C11: a handler that raises does not stop the pass: every listener that
\* passes its filters is invoked, also after a failing one, and the dispatch
\* itself does not raise.
C11_FailureIsolated ==
    last.op = "dispatch" =>
        /\ last.raised = None
        /\ last.errored = (RaisedEntries # {})
        /\ \A i \in 1..Len(listeners[last.ev[1]]) :
              Passes(listeners[last.ev[1]][i], last.sender, last.msg) =>
                  \E k \in 1..Len(last.trace) :
                      last.trace[k].idx = i /\ last.trace[k].kind = "handler"

C11_Witness ==
    /\ last.op = "dispatch"
    /\ Len(listeners[last.ev[1]]) = 2
    /\ Len(last.trace) = 2
    /\ last.trace[1].outcome = "raised"
    /\ last.trace[2].outcome = "returned"
    /\ last.trace[2].idx = 2

C18_OwnChainTransmitted ==
    \A t \in AsyncHandlers :
        tasks[t].pc = "sent" =>
            tasks[t].calls = <<Join(ElementCodes(tasks[t].elements))>>
====
